---- MODULE Spec2Model ----
(***************************************************************************)
(* A model of the mailto-finder scripts:                                   *)
(*   scripts/check_archives.py      (the excerpt-capturing scanner)        *)
(*   scripts/generate_candidates.py (the candidate generator)              *)
(*                                                                         *)
(* Strings are TLA+ strings; positions in a string are 0-based and slices  *)
(* are half-open, as in Python.  The network (the CDX index, the archive   *)
(* pages, the two search engines) is the environment: every call draws its *)
(* answer from a small set.                                                *)
(***************************************************************************)
EXTENDS Integers, Sequences, FiniteSets, TLC

VARIABLES
    \* ---- check_archives.main ----
    candFile,     \* the --candidates file: [kind, lines]
    stdoutAscii,  \* TRUE: sys.stdout encodes ASCII only (print may raise)
    pc,           \* position of main
    candidates,   \* main's list `candidates`
    idx,          \* number of items of the current loop already dispatched
    found,        \* main's set `found`
    excerpts,     \* main's list `excerpts`
    dispatched,   \* history: <<pass, url>> of every process_archive_url call
    caught,       \* history: main has caught an exception of an earlier dispatch
    last,         \* history: what the last process_archive_url call did
    afterMain,    \* history: [done, found]: `found` when the main loop ended
    oldOut,       \* content of the --out file before the run
    outFile,      \* content of the --out file (NoFile: it does not exist)
    excerptFile,  \* content of the --excerpt-out file
    exitCode,     \* exit status of the process (-1: still running)
    raisedAt,     \* line of main an exception left main at (0: none)
    \* ---- find_mailto_occurrences alone ----
    mPc, mBody, mEmail, mResults,
    \* ---- query_cdx alone ----
    cPc, cUrl, cResp, cOut,
    \* ---- process_archive_url alone ----
    dPc, dUrl, dAscii, dResp, dFetch, dFound0, dOut,
    \* ---- generate_candidates.main ----
    gPc, gEmail, gQ, gCandidates, gCalls, gReturned, gFailed, gFile

scanVars == <<candFile, stdoutAscii, pc, candidates, idx, found, excerpts,
              dispatched, caught, last, afterMain, oldOut, outFile, excerptFile,
              exitCode, raisedAt>>
mailVars == <<mPc, mBody, mEmail, mResults>>
cdxVars  == <<cPc, cUrl, cResp, cOut>>
dispVars == <<dPc, dUrl, dAscii, dResp, dFetch, dFound0, dOut>>
genVars  == <<gPc, gEmail, gQ, gCandidates, gCalls, gReturned, gFailed, gFile>>
vars     == <<scanVars, mailVars, cdxVars, dispVars, genVars>>

-----------------------------------------------------------------------------
(* Python's str operations, as far as the scripts use them.                *)

\* s[a:b]
Slice(s, a, b) == SubSeq(s, a + 1, b)

\* s[i]
CharAt(s, i) == SubSeq(s, i + 1, i + 1)

Max(a, b) == IF a >= b THEN a ELSE b

Min(a, b) == IF a <= b THEN a ELSE b

\* sub in s
Contains(sub, s) ==
    \E i \in 0..(Len(s) - Len(sub)) : Slice(s, i, i + Len(sub)) = sub

\* s.startswith(p)
StartsWith(s, p) == Len(p) <= Len(s) /\ Slice(s, 0, Len(p)) = p

UpperLetters == "ABCDEFGHIJKLMNOPQRSTUVWXYZ"

LowerLetters == "abcdefghijklmnopqrstuvwxyz"

\* c.lower() for the letters that have a lower case
LowerTable ==
    [c \in {SubSeq(UpperLetters, k, k) : k \in 1..26} |->
        LET k == CHOOSE k \in 1..26 : SubSeq(UpperLetters, k, k) = c
        IN  SubSeq(LowerLetters, k, k)]

\* c.lower() of one character
LowerChar(c) == IF c \in DOMAIN LowerTable THEN LowerTable[c] ELSE c

RECURSIVE Lower(_)
\* s.lower(): character by character (the string is halved to keep the
\* recursion shallow)
Lower(s) ==
    IF Len(s) <= 1 THEN LowerChar(s)
    ELSE Lower(SubSeq(s, 1, Len(s) \div 2)) \o Lower(SubSeq(s, Len(s) \div 2 + 1, Len(s)))

\* the characters str.strip() removes and the regex class \s matches
IsSpace(c) == c \in {" ", "\t", "\n", "\r", "\f"}

RECURSIVE LStrip(_)
LStrip(s) ==
    IF s # "" /\ IsSpace(SubSeq(s, 1, 1)) THEN LStrip(SubSeq(s, 2, Len(s))) ELSE s

RECURSIVE RStrip(_)
RStrip(s) ==
    IF s # "" /\ IsSpace(SubSeq(s, Len(s), Len(s)))
    THEN RStrip(SubSeq(s, 1, Len(s) - 1)) ELSE s

\* s.strip()
Strip(s) == RStrip(LStrip(s))

\* s.replace("\r", " ").replace("\n", " ")
RECURSIVE Flatten(_)
Flatten(s) ==
    IF Len(s) <= 1 THEN (IF s \in {"\r", "\n"} THEN " " ELSE s)
    ELSE Flatten(SubSeq(s, 1, Len(s) \div 2)) \o Flatten(SubSeq(s, Len(s) \div 2 + 1, Len(s)))

\* The strings of the model are written in ASCII.  A character outside
\* ASCII (the accented letter of a URL, U+00E9, or the dash of the notice of
\* line 173, U+2014) is written as a vertical bar, which no string of the
\* model uses as itself.
NonAscii == "|"

\* The ASCII characters the model uses, in code-point order (the controls in
\* front): the position of a character is its rank.
AsciiOrder ==
    "\t\n\f\r !\"#$%&'()*+,-./0123456789:;<=>?@ABCDEFGHIJKLMNOPQRSTUVWXYZ[\\]^_abcdefghijklmnopqrstuvwxyz{}~"

AsciiChars == {SubSeq(AsciiOrder, k, k) : k \in 1..Len(AsciiOrder)}

IsAscii(c) == c \in AsciiChars

OrdTable ==
    [c \in AsciiChars |-> CHOOSE k \in 1..Len(AsciiOrder) : SubSeq(AsciiOrder, k, k) = c]

\* rank of a character in code-point order; every non-ASCII character is
\* above every ASCII one
Ord(c) == IF IsAscii(c) THEN OrdTable[c] ELSE Len(AsciiOrder) + 1

\* a < b on str (code-point lexicographic order): a is a proper prefix of
\* b, or the first character that differs is the smaller one in a
StrLess(a, b) ==
    \/ Len(a) < Len(b) /\ SubSeq(b, 1, Len(a)) = a
    \/ \E k \in 1..Min(Len(a), Len(b)) :
          /\ SubSeq(a, 1, k - 1) = SubSeq(b, 1, k - 1)
          /\ Ord(SubSeq(a, k, k)) < Ord(SubSeq(b, k, k))

\* sorted(S) of a set of str: the k-th is the one with k - 1 smaller ones
Sorted(S) ==
    [k \in 1..Cardinality(S) |->
        CHOOSE x \in S : Cardinality({y \in S : StrLess(y, x)}) = k - 1]

RECURSIVE WriteFrom(_, _)
WriteFrom(seq, k) ==
    IF k > Len(seq) THEN "" ELSE (seq[k] \o "\n") \o WriteFrom(seq, k + 1)

\* for s in seq: f.write(s + "\n")
WriteLines(seq) == WriteFrom(seq, 1)

\* reading a text file back line by line, the line terminators removed: a
\* line ends at a "\n", the last one at the end of the text
ReadLines(text) ==
    LET n == Len(text)
        ends == {k \in 1..n : SubSeq(text, k, k) = "\n"}
                \cup (IF n > 0 /\ SubSeq(text, n, n) # "\n" THEN {n + 1} ELSE {})
        nth(j) == CHOOSE e \in ends : Cardinality({q \in ends : q <= e}) = j
        endOf == [j \in 1..Cardinality(ends) |-> nth(j)]
    IN  [j \in 1..Cardinality(ends) |->
            SubSeq(text, IF j = 1 THEN 1 ELSE endOf[j - 1] + 1, endOf[j] - 1)]

SeqToSet(seq) == {seq[k] : k \in 1..Len(seq)}

-----------------------------------------------------------------------------
(* check_archives.py: find_mailto_occurrences.  The two regular            *)
(* expressions are sequences of elements: a literal, \s* (greedy, with     *)
(* backtracking) and ["'].  re.IGNORECASE: a pattern is matched, with its  *)
(* literals in lower case, against the text in lower case; the positions   *)
(* found are positions of the text as it is.                               *)

Lit(s) == [t |-> "lit", s |-> s]

Ws == [t |-> "ws", s |-> ""]

Quote == [t |-> "quote", s |-> ""]

\* +-50: the window in which a structured match hides a plain one
DupWindow == 50

\* +-120: the context kept around a match
SnippetContext == 120

\* r'href\s*=\s*["\']\s*mailto\s*:\s*' + re.escape(email) + r'\s*["\']'
HrefPattern(email) ==
    <<Lit("href"), Ws, Lit("="), Ws, Quote, Ws, Lit("mailto"), Ws, Lit(":"), Ws,
      Lit(Lower(email)), Ws, Quote>>

\* r'mailto\s*:\s*' + re.escape(email)
PlainPattern(email) == <<Lit("mailto"), Ws, Lit(":"), Ws, Lit(Lower(email))>>

\* the end of the run of whitespace that starts at i
SpaceEnd(s, i) ==
    CHOOSE j \in i..Max(i, Len(s)) :
        /\ j >= Len(s) \/ ~IsSpace(CharAt(s, j))
        /\ \A k \in i..(j - 1) : IsSpace(CharAt(s, k))

RECURSIVE MatchFrom(_, _, _, _)
RECURSIVE MatchWs(_, _, _, _, _)
\* the end of the match of pat[k..] at position i of s (in lower case), or -1
MatchFrom(pat, k, s, i) ==
    IF k > Len(pat) THEN i
    ELSE IF pat[k].t = "lit"
    THEN LET n == Len(pat[k].s)
         IN  IF i + n <= Len(s) /\ Slice(s, i, i + n) = pat[k].s
             THEN MatchFrom(pat, k + 1, s, i + n)
             ELSE -1
    ELSE IF pat[k].t = "quote"
    THEN IF i < Len(s) /\ CharAt(s, i) \in {"\"", "'"}
         THEN MatchFrom(pat, k + 1, s, i + 1)
         ELSE -1
    ELSE MatchWs(pat, k, s, i, SpaceEnd(s, i))

\* \s* takes s[i:j] and, as long as the rest fails, gives one character
\* back: the rest is matched from the last end in i..j from which it can be
MatchWs(pat, k, s, i, j) ==
    LET ends == {e \in i..j : MatchFrom(pat, k + 1, s, e) >= 0}
    IN  IF ends = {} THEN -1
        ELSE MatchFrom(pat, k + 1, s, CHOOSE e \in ends : \A f \in ends : f <= e)

NoMatch == [start |-> -1, end |-> -1]

\* the leftmost match of pat in s that starts at i or later
SearchFrom(pat, s, i) ==
    LET starts == {b \in i..Len(s) : MatchFrom(pat, 1, s, b) >= 0}
    IN  IF starts = {} THEN NoMatch
        ELSE LET b == CHOOSE c \in starts : \A d \in starts : c <= d
             IN  [start |-> b, end |-> MatchFrom(pat, 1, s, b)]

\* pattern.search(s, pos, endpos), s in lower case: the leftmost match that
\* starts at pos or later in the string cut at endpos
Search(pat, s, pos, endpos) == SearchFrom(pat, Slice(s, 0, Min(endpos, Len(s))), pos)

RECURSIVE FindIter(_, _, _)
\* pattern.finditer(s), s in lower case: the leftmost non-overlapping
\* matches, in order
FindIter(pat, s, pos) ==
    LET m == Search(pat, s, pos, Len(s))
    IN  IF m = NoMatch THEN <<>>
        ELSE <<m>> \o FindIter(pat, s, IF m.end > m.start THEN m.end ELSE m.end + 1)

\* (snippet, m.group(0)) of a match
Occurrence(html, m) ==
    <<Flatten(Slice(html, Max(0, m.start - SnippetContext),
                    Min(Len(html), m.end + SnippetContext))),
      Slice(html, m.start, m.end)>>

\* "avoid duplicates if already captured": a structured match lies within
\* the window around the plain match m
AlreadyCaptured(low, email, m) ==
    Search(HrefPattern(email), low, Max(0, m.start - DupWindow),
           Min(Len(low), m.end + DupWindow)) # NoMatch

RECURSIVE KeepPlain(_, _, _, _)
\* the second loop: the plain matches ms that are reported
KeepPlain(html, low, email, ms) ==
    IF ms = <<>> THEN <<>>
    ELSE (IF AlreadyCaptured(low, email, Head(ms)) THEN <<>>
          ELSE <<Occurrence(html, Head(ms))>>)
         \o KeepPlain(html, low, email, Tail(ms))

\* find_mailto_occurrences(html_text, email): list of (snippet, full_match)
FindMailtoOccurrences(html, email) ==
    LET low == Lower(html)
        hs == FindIter(HrefPattern(email), low, 0)
        ps == FindIter(PlainPattern(email), low, 0)
    IN  [k \in 1..Len(hs) |-> Occurrence(html, hs[k])]
        \o KeepPlain(html, low, email, ps)

-----------------------------------------------------------------------------
(* check_archives.py: query_cdx.  A JSON value is [t, v]; the answer of    *)
(* the index is [raises, data]: which of requests.get, raise_for_status    *)
(* and r.json() raised ("none": none of them), and what r.json() returned. *)

JStr(s) == [t |-> "str", v |-> s]

JNum(n) == [t |-> "num", v |-> n]

JList(items) == [t |-> "list", v |-> items]

JObj == [t |-> "obj", v |-> 0]

JNull == [t |-> "null", v |-> 0]

RECURSIVE Digits(_)
Digits(n) ==
    (IF n >= 10 THEN Digits(n \div 10) ELSE "") \o SubSeq("0123456789", (n % 10) + 1, (n % 10) + 1)

\* str(v), what an f-string puts in for {v}
Str(v) ==
    CASE v.t = "str" -> v.v
      [] v.t = "num" -> Digits(v.v)
      [] v.t = "null" -> "None"
      [] OTHER -> "{}"

\* isinstance(v, list)
IsList(v) == v.t = "list"

\* len(v)
PyLen(v) == IF v.t = "obj" THEN 0 ELSE Len(v.v)

QueryResult(raised, rows) == [raised |-> raised, rows |-> rows]

RECURSIVE CdxRows(_)
\* for row in data[1:]: if isinstance(row, list) and len(row) >= 2: append
CdxRows(items) ==
    IF items = <<>> THEN <<>>
    ELSE (IF IsList(Head(items)) /\ PyLen(Head(items)) >= 2
          THEN <<<<Head(items).v[1], Head(items).v[2]>>>>
          ELSE <<>>)
         \o CdxRows(Tail(items))

\* query_cdx with `for row in data:` in place of `for row in data[1:]`
QueryCdxKeepsHeader(orig_url, resp) ==
    IF resp.raises # "none" THEN QueryResult(FALSE, <<>>)
    ELSE IF ~IsList(resp.data) THEN QueryResult(FALSE, <<>>)
    ELSE IF PyLen(resp.data) < 2 THEN QueryResult(FALSE, <<>>)
    ELSE QueryResult(FALSE, CdxRows(resp.data.v))

\* query_cdx(orig_url) when the index answers resp: the list returned, and
\* whether an exception left the function
QueryCdx(orig_url, resp) ==
    IF resp.raises # "none" THEN QueryResult(FALSE, <<>>)
    ELSE IF ~IsList(resp.data) THEN QueryResult(FALSE, <<>>)
    ELSE IF PyLen(resp.data) < 2 THEN QueryResult(FALSE, <<>>)
    ELSE QueryResult(FALSE, CdxRows(Tail(resp.data.v)))

-----------------------------------------------------------------------------
(* check_archives.py: scan_snapshot and process_archive_url.  A page fetch *)
(* answers [ok, text]: ok = FALSE when fetch_text raised.                  *)

FetchFailed == [ok |-> FALSE, text |-> ""]

FetchOk(text) == [ok |-> TRUE, text |-> text]

\* the address given with --email, stripped
Email == "test@example.com"

\* the pages of the archive
PlainBody == "write to mailto:test@example.com\r\nbye"

AnchorBody == "<a href=\"mailto:test@example.com\">mail</a>"

OtherBody == "<p>mailto:other@example.com</p>"

Pages == {PlainBody, AnchorBody, OtherBody}

\* find_mailto_occurrences of the pages of the archive, computed once
PageHits == [text \in Pages |-> FindMailtoOccurrences(text, Email)]

\* scan_snapshot(snapshot_url, email) when the fetch answers outcome
ScanSnapshot(snapshot_url, email, outcome) ==
    IF ~outcome.ok THEN <<>>
    ELSE IF email = Email /\ outcome.text \in Pages THEN PageHits[outcome.text]
    ELSE FindMailtoOccurrences(outcome.text, email)

AllAscii(s) == \A k \in 1..Len(s) : IsAscii(SubSeq(s, k, k))

\* print(...{s}...) to sys.stdout raises UnicodeEncodeError
PrintRaises(s, ascii) == ascii /\ ~AllAscii(s)

\* the snapshot URL without the id_ flag: f"https://web.archive.org/web/{ts}/{orig}"
SnapshotUrlNoRawFlag(ts, orig) == "https://web.archive.org/web/" \o Str(ts) \o "/" \o Str(orig)

\* f"https://web.archive.org/web/{ts}id_/{orig}"
SnapshotUrl(ts, orig) == "https://web.archive.org/web/" \o Str(ts) \o "id_/" \o Str(orig)

\* for snip, full in hits: excerpts.append((url, full, snip))
AddExcerpts(ex, url, hits) == ex \o [k \in 1..Len(hits) |-> <<url, hits[k][2], hits[k][1]>>]

\* what a call of process_archive_url leaves behind: the two containers it
\* mutates, whether it raised, and the calls it made, in order
Outcome(fs, ex, raised, queried, fetched) ==
    [found |-> fs, excerpts |-> ex, raised |-> raised, queried |-> queried,
     fetched |-> fetched]

RECURSIVE ScanRows(_, _, _, _, _, _, _, _)
\* the loop over the resolver's rows, from row k on; fetches[k] answers the
\* fetch of row k
ScanRows(rows, k, email, fs, ex, ascii, fetches, acc) ==
    IF k > Len(rows) THEN Outcome(fs, ex, FALSE, acc.queried, acc.fetched)
    ELSE LET snap == SnapshotUrl(rows[k][1], rows[k][2])
         IN  IF PrintRaises(snap, ascii)
             THEN Outcome(fs, ex, TRUE, acc.queried, acc.fetched)
             ELSE LET hits == ScanSnapshot(snap, email, fetches[k])
                      a2 == [acc EXCEPT !.fetched = Append(@, snap)]
                  IN  IF hits # <<>>
                      THEN ScanRows(rows, k + 1, email, fs \cup {snap},
                                    AddExcerpts(ex, snap, hits), ascii, fetches, a2)
                      ELSE ScanRows(rows, k + 1, email, fs, ex, ascii, fetches, a2)

\* lines 119-129 (and, the same code, 105-116): resolve, then scan every row
ResolveAndScan(url, email, fs, ex, ascii, resp, fetches) ==
    IF PrintRaises(url, ascii) THEN Outcome(fs, ex, TRUE, <<>>, <<>>)
    ELSE LET q == QueryCdx(url, resp)
         IN  IF q.raised THEN Outcome(fs, ex, TRUE, <<url>>, <<>>)
             ELSE ScanRows(q.rows, 1, email, fs, ex, ascii, fetches,
                           [queried |-> <<url>>, fetched |-> <<>>])

\* lines 90-100 without the `if "*" in url: return` of lines 92-93
DirectScanAnyUrl(url, email, fs, ex, ascii, fetches) ==
    IF PrintRaises(url, ascii) THEN Outcome(fs, ex, TRUE, <<>>, <<>>)
    ELSE LET hits == ScanSnapshot(url, email, fetches[1])
         IN  IF hits # <<>>
             THEN Outcome(fs \cup {url}, AddExcerpts(ex, url, hits), FALSE, <<>>, <<url>>)
             ELSE Outcome(fs, ex, FALSE, <<>>, <<url>>)

\* lines 90-100: a direct archive URL
DirectScan(url, email, fs, ex, ascii, fetches) ==
    IF Contains("*", url) THEN Outcome(fs, ex, FALSE, <<>>, <<>>)
    ELSE IF PrintRaises(url, ascii) THEN Outcome(fs, ex, TRUE, <<>>, <<>>)
    ELSE LET hits == ScanSnapshot(url, email, fetches[1])
         IN  IF hits # <<>>
             THEN Outcome(fs \cup {url}, AddExcerpts(ex, url, hits), FALSE, <<>>, <<url>>)
             ELSE Outcome(fs, ex, FALSE, <<>>, <<url>>)

\* process_archive_url(url, email, found_set, excerpts)
ProcessArchiveUrl(url, email, fs, ex, ascii, resp, fetches) ==
    IF Contains("web.archive.org", url)
    THEN DirectScan(url, email, fs, ex, ascii, fetches)
    ELSE IF Contains("*", url)
    THEN ResolveAndScan(url, email, fs, ex, ascii, resp, fetches)
    ELSE ResolveAndScan(url, email, fs, ex, ascii, resp, fetches)

-----------------------------------------------------------------------------
(* check_archives.py: main.                                                *)

FallbackPatterns ==
    <<"*cye04720*nifty.com*",
      "*.nifty.com/*",
      "*.so-net.ne.jp/*nymph*",
      "www008.upp.so-net.ne.jp/NYMPH/*",
      "www12.u-page.so-net.ne.jp:80/ka3/nymph-/*",
      "8028.teacup.com/*">>

\* most lines of a candidates file
MaxLines == 2

\* most data rows the index answers with
MaxRows == 2

\* the lines a candidates file is made of, as read (with their terminator)
RawLines ==
    {"https://web.archive.org/web/2004/http://a.example/\n",
     "  http://caf" \o NonAscii \o ".example/ \n",
     "*.nifty.com/*\n",
     " \t\n"}

SeqsUpTo(S, n) == UNION {[1..k -> S] : k \in 0..n}

MissingFile == [kind |-> "missing", lines |-> <<>>]

UnreadableFile == [kind |-> "unreadable", lines |-> <<>>]

CandFiles ==
    {MissingFile, UnreadableFile}
    \cup {[kind |-> "ok", lines |-> ls] : ls \in SeqsUpTo(RawLines, MaxLines)}

\* "the file does not exist"
NoFile == "<no file>"

\* what an earlier run left in the --out file
StaleOut == "https://web.archive.org/web/1999id_/http://old.example/\n"

\* the rows of the index
HeaderRow == JList(<<JStr("timestamp"), JStr("original")>>)

RowA == JList(<<JStr("20050101"), JStr("http://a.example/")>>)

RowB == JList(<<JNum(2006), JStr("http://caf" \o NonAscii \o ".example/"), JStr("text/html")>>)

CdxFailure == [raises |-> "get", data |-> JNull]

CdxAnswer(rows) == [raises |-> "none", data |-> JList(<<HeaderRow>> \o rows)]

\* what the index answers during a run of main: an error, or the first k
\* of the rows RowA, RowB, RowA, ...
MainCdx ==
    {CdxFailure}
    \cup {CdxAnswer([j \in 1..k |-> IF j % 2 = 1 THEN RowA ELSE RowB]) : k \in 0..MaxRows}

MainFetch == {FetchFailed, FetchOk(PlainBody)}

\* [line.strip() for line in f if line.strip()]
RECURSIVE StripLines(_)
StripLines(ls) ==
    IF ls = <<>> THEN <<>>
    ELSE (IF Strip(Head(ls)) # "" THEN <<Strip(Head(ls))>> ELSE <<>>)
         \o StripLines(Tail(ls))

\* the record of one call of process_archive_url: its argument, the rows
\* the resolver gave, the answers of the fetches, `found` before the call,
\* and what the call left behind
CallRecord(u, rows, fetches, before, r) ==
    [url |-> u, rows |-> rows, fetches |-> fetches, before |-> before,
     queried |-> r.queried, fetched |-> r.fetched, raised |-> r.raised,
     found |-> r.found]

NoCall ==
    CallRecord("", <<>>, <<>>, {}, Outcome({}, <<>>, FALSE, <<>>, <<>>))

\* the number of pages a call would fetch if nothing raised
Needed(url, resp) ==
    IF Contains("web.archive.org", url) THEN 1 ELSE Len(QueryCdx(url, resp).rows)

\* the number of fetch answers that hold a match
Matching(fetches) ==
    Cardinality({k \in DOMAIN fetches : ScanSnapshot("", Email, fetches[k]) # <<>>})

ScanInit ==
    /\ candFile \in CandFiles
    /\ stdoutAscii \in BOOLEAN
    /\ pc = "read"
    /\ candidates = <<>>
    /\ idx = 0
    /\ found = {}
    /\ excerpts = <<>>
    /\ dispatched = <<>>
    /\ caught = FALSE
    /\ last = NoCall
    /\ afterMain = [done |-> FALSE, found |-> {}]
    /\ oldOut \in {NoFile, StaleOut}
    /\ outFile = oldOut
    /\ excerptFile = NoFile
    /\ exitCode = -1
    /\ raisedAt = 0

\* line 153: open() raises something `except FileNotFoundError` lets through
OpenRaises(file) == file.kind = "unreadable"

\* lines 150-154 without the substitution of lines 157-159
LoadCandidatesAsRead(file) ==
    IF file.kind = "missing" THEN <<>> ELSE StripLines(file.lines)

\* lines 150-159: the list main goes through
LoadCandidates(file) ==
    LET c == IF file.kind = "missing" THEN <<>> ELSE StripLines(file.lines)
    IN  IF c = <<>> THEN FallbackPatterns ELSE c

\* lines 150-162: open() raises FileNotFoundError (caught) or another
\* OSError (not caught: the process ends with a traceback)
ReadCandidates ==
    /\ pc = "read"
    /\ IF OpenRaises(candFile)
       THEN /\ pc' = "crashed"
            /\ exitCode' = 1
            /\ raisedAt' = 151
            /\ UNCHANGED candidates
       ELSE /\ candidates' = LoadCandidates(candFile)
            /\ pc' = "main"
            /\ UNCHANGED <<exitCode, raisedAt>>
    /\ UNCHANGED <<candFile, stdoutAscii, idx, found, excerpts, dispatched, caught,
                   last, afterMain, oldOut, outFile, excerptFile>>

\* process_archive_url(...) called outside try/except
NoCatchInMain(r) == r

\* try: process_archive_url(...) except Exception: the exception ends here
CatchInMain(r) == [r EXCEPT !.raised = FALSE]

\* one turn of a loop of main: process_archive_url(u, ...) in the try/except
\* of line `line`.  The pages of a run hold at most MaxRows matches.
Dispatch(pass, line, u) ==
    \E resp \in MainCdx :
      \E fetches \in [1..Needed(u, resp) -> MainFetch] :
        /\ Len(excerpts) + Matching(fetches) <= MaxRows
        /\ \E r \in {ProcessArchiveUrl(u, Email, found, excerpts, stdoutAscii, resp, fetches)} :
              /\ found' = r.found
              /\ excerpts' = r.excerpts
              /\ caught' = (caught \/ last.raised)
              /\ last' = CallRecord(u, QueryCdx(u, resp).rows, fetches, found, r)
              /\ pc' = IF CatchInMain(r).raised THEN "crashed" ELSE pc
              /\ exitCode' = IF CatchInMain(r).raised THEN 1 ELSE exitCode
              /\ raisedAt' = IF CatchInMain(r).raised THEN line ELSE raisedAt
        /\ dispatched' = Append(dispatched, <<pass, u>>)
        /\ idx' = idx + 1

\* lines 165-169
DispatchCandidate ==
    /\ pc = "main"
    /\ idx < Len(candidates)
    /\ Dispatch("main", 167, candidates[idx + 1])
    /\ UNCHANGED <<candFile, stdoutAscii, candidates, afterMain, oldOut, outFile,
                   excerptFile>>

\* line 172: `if not found`
RunsFallback(fs) == fs = {}

\* line 173: the notice main prints before the last-resort pass
FallbackNotice ==
    "[*] No results yet " \o NonAscii \o " running focused CDX patterns as last effort."

\* lines 172-173, reached when the loop over the candidates is over; the
\* print of line 173 is in no try block
EndMainPass ==
    /\ pc = "main"
    /\ idx = Len(candidates)
    /\ IF ~RunsFallback(found)
       THEN pc' = "write" /\ UNCHANGED <<exitCode, raisedAt>>
       ELSE IF PrintRaises(FallbackNotice, stdoutAscii)
       THEN pc' = "crashed" /\ exitCode' = 1 /\ raisedAt' = 173
       ELSE pc' = "fallback" /\ UNCHANGED <<exitCode, raisedAt>>
    /\ idx' = 0
    /\ afterMain' = [done |-> TRUE, found |-> found]
    /\ UNCHANGED <<candFile, stdoutAscii, candidates, found, excerpts, dispatched,
                   caught, last, oldOut, outFile, excerptFile>>

\* lines 174-178
DispatchFallback ==
    /\ pc = "fallback"
    /\ idx < Len(FallbackPatterns)
    /\ Dispatch("fallback", 176, FallbackPatterns[idx + 1])
    /\ UNCHANGED <<candFile, stdoutAscii, candidates, afterMain, oldOut, outFile,
                   excerptFile>>

EndFallbackPass ==
    /\ pc = "fallback"
    /\ idx = Len(FallbackPatterns)
    /\ pc' = "write"
    /\ UNCHANGED <<candFile, stdoutAscii, candidates, idx, found, excerpts, dispatched,
                   caught, last, afterMain, oldOut, outFile, excerptFile, exitCode,
                   raisedAt>>

RECURSIVE ExcerptBlocks(_)
\* "--- {snap} ---\n" "match: {full}\n" "{snip}\n\n" for every excerpt
ExcerptBlocks(ex) ==
    IF ex = <<>> THEN ""
    ELSE ("--- " \o Head(ex)[1] \o " ---\n" \o "match: " \o Head(ex)[2] \o "\n"
          \o Head(ex)[3] \o "\n\n")
         \o ExcerptBlocks(Tail(ex))

\* lines 181-187 with sorted(found, reverse=True)
WriteFoundDescending(fs, old) ==
    IF fs # {} THEN WriteLines([k \in 1..Cardinality(fs) |-> Sorted(fs)[Cardinality(fs) + 1 - k]])
    ELSE old

\* lines 181-187: the --out file after the run; it is opened for writing
\* only when there is something to write
WriteFound(fs, old) == IF fs # {} THEN WriteLines(Sorted(fs)) ELSE old

\* lines 181-197
WriteOutputs ==
    /\ pc = "write"
    /\ \E text \in {WriteFound(found, outFile)} : outFile' = text
    /\ \E text \in {IF excerpts # <<>> THEN ExcerptBlocks(excerpts) ELSE excerptFile} :
          excerptFile' = text
    /\ pc' = "done"
    /\ exitCode' = 0
    /\ UNCHANGED <<candFile, stdoutAscii, candidates, idx, found, excerpts, dispatched,
                   caught, last, afterMain, oldOut, raisedAt>>

-----------------------------------------------------------------------------
(* find_mailto_occurrences on its own: a body is put together from a few   *)
(* pieces, then searched.                                                  *)

\* most pieces of a body
MaxPieces == 3

\* the length of the long run of blanks among the pieces
GapLen == 50

RECURSIVE Blanks(_)
Blanks(n) ==
    IF n = 0 THEN "" ELSE IF n = 1 THEN " "
    ELSE Blanks(n \div 2) \o Blanks(n - n \div 2)

MailEmails == {"t@e.x"}

\* the pieces: the start of an anchor attribute, a quoted and a bare mailto
\* reference, the attribute in its most tolerant spelling, a reference to
\* another address, and filling
Pieces(email) ==
    {"href=",
     "\"mailto:" \o email \o "\"",
     "mailto:" \o email,
     "HREF\t=  ' MAILTO :\n" \o email \o " '",
     "mailto:t@eyx",
     Blanks(GapLen),
     "\r\n",
     "<a>"}

RECURSIVE Concat(_)
Concat(seq) == IF seq = <<>> THEN "" ELSE Head(seq) \o Concat(Tail(seq))

MailInit ==
    /\ mPc = "start"
    /\ mEmail \in MailEmails
    /\ mBody \in {Concat(ps) : ps \in SeqsUpTo(Pieces(mEmail), MaxPieces)}
    /\ mResults = <<>>

\* the call find_mailto_occurrences(mBody, mEmail)
FindOccurrences ==
    /\ mPc = "start"
    /\ mResults' = FindMailtoOccurrences(mBody, mEmail)
    /\ mPc' = "done"
    /\ UNCHANGED <<mBody, mEmail>>

-----------------------------------------------------------------------------
(* query_cdx on its own.                                                   *)

\* most rows (the header included) of an answer of the index
MaxItems == 3

\* what a row of an answer can be
CdxItems ==
    {HeaderRow, RowA, RowB, JList(<<JStr("2007")>>), JList(<<>>), JStr("ab"), JObj,
     JNull}

CdxResponses ==
    {[raises |-> e, data |-> JNull] : e \in {"get", "raise_for_status", "json"}}
    \cup {[raises |-> "none", data |-> d] : d \in {JNum(0), JObj, JNull, JStr("error")}}
    \cup {[raises |-> "none", data |-> JList(items)] : items \in SeqsUpTo(CdxItems, MaxItems)}

CdxInit ==
    /\ cPc = "start"
    /\ cUrl \in {"http://a.example/", "*.nifty.com/*"}
    /\ cResp \in CdxResponses
    /\ cOut = QueryResult(FALSE, <<>>)

\* the call query_cdx(cUrl)
CallQueryCdx ==
    /\ cPc = "start"
    /\ cOut' = QueryCdx(cUrl, cResp)
    /\ cPc' = "done"
    /\ UNCHANGED <<cUrl, cResp>>

-----------------------------------------------------------------------------
(* process_archive_url on its own.                                         *)

DispUrls ==
    {"https://web.archive.org/web/2004/http://a.example/",
     "https://web.archive.org/web/*/*cye04720*",
     "http://a.example/",
     "http://caf" \o NonAscii \o ".example/",
     "*.nifty.com/*",
     "*caf" \o NonAscii \o "*"}

DispCdx == {CdxFailure} \cup {CdxAnswer(rs) : rs \in SeqsUpTo({RowA, RowB}, MaxRows)}

DispFetch == {FetchFailed, FetchOk(PlainBody), FetchOk(AnchorBody), FetchOk(OtherBody)}

DispInit ==
    /\ dPc = "start"
    /\ dUrl \in DispUrls
    /\ dAscii \in BOOLEAN
    /\ dResp \in DispCdx
    /\ dFetch \in [1..Needed(dUrl, dResp) -> DispFetch]
    /\ dFound0 \in {{}, {SnapshotUrl(RowA.v[1], RowA.v[2])}}
    /\ dOut = NoCall

\* the call process_archive_url(dUrl, Email, found_set, excerpts) with
\* found_set = dFound0 and no excerpt yet
CallProcess ==
    /\ dPc = "start"
    /\ dOut' = CallRecord(dUrl, QueryCdx(dUrl, dResp).rows, dFetch, dFound0,
                          ProcessArchiveUrl(dUrl, Email, dFound0, <<>>, dAscii, dResp, dFetch))
    /\ dPc' = "done"
    /\ UNCHANGED <<dUrl, dAscii, dResp, dFetch, dFound0>>

-----------------------------------------------------------------------------
(* generate_candidates.py.  A search call answers [ok, links]: ok = FALSE  *)
(* when bing_search or ddg_search raised.                                  *)

Seeds ==
    <<"http://8028.teacup.com/koto/bbs",
      "http://www008.upp.so-net.ne.jp/NYMPH/",
      "http://www12.u-page.so-net.ne.jp:80/ka3/nymph-/main.html",
      "http://home.nifty.com/~cye04720/",
      "http://www.nifty.com/~cye04720/",
      "https://web.archive.org/web/*/*cye04720*",
      "https://web.archive.org/web/*/*cye04720@nifty.com*">>

InterestPatterns ==
    <<"web.archive.org", "teacup.com", "nifty.com", "geocities", "so-net.ne.jp",
      "upp.so-net", "u-page.so-net">>

RECURSIVE Before(_, _)
\* s.split(c)[0]
Before(s, c) ==
    IF s = "" \/ SubSeq(s, 1, 1) = c THEN ""
    ELSE SubSeq(s, 1, 1) \o Before(SubSeq(s, 2, Len(s)), c)

\* the list `queries` of main
Queries(email) ==
    LET e == "\"" \o email \o "\""
        l == "\"" \o Before(email, "@") \o "\""
    IN  <<e, l, e \o " site:teacup.com", e \o " site:archive.org", e \o " site:nifty.com",
          l \o " nifty", l \o " nymph", e \o " \"mailto:\"">>

\* is_interesting(url, email)
IsInteresting(url, email) ==
    IF url = "" THEN FALSE
    ELSE \E lower \in {Lower(url)} :
            \/ Contains(Lower(email), lower)
            \/ \E k \in 1..Len(InterestPatterns) : Contains(InterestPatterns[k], lower)

\* most links a search call returns
MaxLinks == 1

GenEmails == {"test@example.com", "cye04720@nifty.com"}

GenLinks ==
    {"http://www.Nifty.com/~x/",
     "http://other.example/page",
     " http://8028.teacup.com/koto/bbs\t",
     "http://other.example/?m=TEST@EXAMPLE.COM"}

SearchFailed == [ok |-> FALSE, links |-> <<>>]

SearchResults ==
    {SearchFailed} \cup {[ok |-> TRUE, links |-> ls] : ls \in SeqsUpTo(GenLinks, MaxLinks)}

\* lines 116-122 without the `if is_interesting(u, email)` of line 119
CollectLinksUnfiltered(cands, res, email) ==
    IF ~res.ok THEN cands ELSE cands \cup SeqToSet(res.links)

\* lines 116-122 (and 124-130): try: for u in search(q): if
\* is_interesting(u, email): candidates.add(u); except Exception: go on
CollectLinks(cands, res, email) ==
    IF ~res.ok THEN cands
    ELSE cands \cup {u \in SeqToSet(res.links) : IsInteresting(u, email)}

\* lines 133-140: the candidates file main writes
WriteCandidateFile(cands) == WriteLines(Sorted({Strip(u) : u \in cands}))

GenInit ==
    /\ gPc = "bing"
    /\ gEmail \in GenEmails
    /\ gQ = 0
    /\ gCandidates = SeqToSet(Seeds)
    /\ gCalls = <<>>
    /\ gReturned = {}
    /\ gFailed = FALSE
    /\ gFile = NoFile

\* lines 116-122: the Bing call of query gQ + 1
BingStep ==
    /\ gPc = "bing"
    /\ gQ < Len(Queries(gEmail))
    /\ \E res \in SearchResults :
         /\ gCandidates' = CollectLinks(gCandidates, res, gEmail)
         /\ gReturned' = gReturned \cup SeqToSet(res.links)
         /\ gFailed' = (gFailed \/ ~res.ok)
    /\ gCalls' = Append(gCalls, <<"bing", Queries(gEmail)[gQ + 1]>>)
    /\ gPc' = "ddg"
    /\ UNCHANGED <<gEmail, gQ, gFile>>

\* lines 124-130: the DuckDuckGo call of query gQ + 1
DdgStep ==
    /\ gPc = "ddg"
    /\ \E res \in SearchResults :
         /\ gCandidates' = CollectLinks(gCandidates, res, gEmail)
         /\ gReturned' = gReturned \cup SeqToSet(res.links)
         /\ gFailed' = (gFailed \/ ~res.ok)
    /\ gCalls' = Append(gCalls, <<"duckduckgo", Queries(gEmail)[gQ + 1]>>)
    /\ gQ' = gQ + 1
    /\ gPc' = "bing"
    /\ UNCHANGED <<gEmail, gFile>>

\* lines 132-142
WriteCandidates ==
    /\ gPc = "bing"
    /\ gQ = Len(Queries(gEmail))
    /\ \E text \in {WriteCandidateFile(gCandidates)} : gFile' = text
    /\ gPc' = "done"
    /\ UNCHANGED <<gEmail, gQ, gCandidates, gCalls, gReturned, gFailed>>

-----------------------------------------------------------------------------
(* The specifications.  Each one runs one part; the variables of the other *)
(* parts rest.                                                             *)

ScanIdle ==
    /\ candFile = MissingFile /\ stdoutAscii = FALSE /\ pc = "idle"
    /\ candidates = <<>> /\ idx = 0 /\ found = {} /\ excerpts = <<>>
    /\ dispatched = <<>> /\ caught = FALSE /\ last = NoCall
    /\ afterMain = [done |-> FALSE, found |-> {}] /\ oldOut = NoFile
    /\ outFile = NoFile /\ excerptFile = NoFile /\ exitCode = -1 /\ raisedAt = 0

MailIdle == mPc = "idle" /\ mBody = "" /\ mEmail = "" /\ mResults = <<>>

CdxIdle == cPc = "idle" /\ cUrl = "" /\ cResp = CdxFailure /\ cOut = QueryResult(FALSE, <<>>)

DispIdle ==
    /\ dPc = "idle" /\ dUrl = "" /\ dAscii = FALSE /\ dResp = CdxFailure
    /\ dFetch = <<>> /\ dFound0 = {} /\ dOut = NoCall

GenIdle ==
    /\ gPc = "idle" /\ gEmail = "" /\ gQ = 0 /\ gCandidates = {} /\ gCalls = <<>>
    /\ gReturned = {} /\ gFailed = FALSE /\ gFile = NoFile

Init == ScanInit /\ MailIdle /\ CdxIdle /\ DispIdle /\ GenIdle

ScanOnly == UNCHANGED <<mailVars, cdxVars, dispVars, genVars>>

Next ==
    \/ ReadCandidates /\ ScanOnly
    \/ DispatchCandidate /\ ScanOnly
    \/ EndMainPass /\ ScanOnly
    \/ DispatchFallback /\ ScanOnly
    \/ EndFallbackPass /\ ScanOnly
    \/ WriteOutputs /\ ScanOnly

\* the scanner, check_archives.main
Spec == Init /\ [][Next]_vars

MailToInit == MailInit /\ ScanIdle /\ CdxIdle /\ DispIdle /\ GenIdle

MailNext == FindOccurrences /\ UNCHANGED <<scanVars, cdxVars, dispVars, genVars>>

\* find_mailto_occurrences
SpecMailto == MailToInit /\ [][MailNext]_vars

CdxOnlyInit == CdxInit /\ ScanIdle /\ MailIdle /\ DispIdle /\ GenIdle

CdxNext == CallQueryCdx /\ UNCHANGED <<scanVars, mailVars, dispVars, genVars>>

\* query_cdx
SpecCdx == CdxOnlyInit /\ [][CdxNext]_vars

DispOnlyInit == DispInit /\ ScanIdle /\ MailIdle /\ CdxIdle /\ GenIdle

DispNext == CallProcess /\ UNCHANGED <<scanVars, mailVars, cdxVars, genVars>>

\* process_archive_url
SpecDispatch == DispOnlyInit /\ [][DispNext]_vars

GenOnlyInit == GenInit /\ ScanIdle /\ MailIdle /\ CdxIdle /\ DispIdle

GenOnly == UNCHANGED <<scanVars, mailVars, cdxVars, dispVars>>

GenNext ==
    \/ BingStep /\ GenOnly
    \/ DdgStep /\ GenOnly
    \/ WriteCandidates /\ GenOnly

\* the generator, generate_candidates.main
SpecGen == GenOnlyInit /\ [][GenNext]_vars

-----------------------------------------------------------------------------
(* Properties.                                                             *)

\* the snapshot URL a resolver row (ts, orig) stands for
ExpectedSnap(row) == "https://web.archive.org/web/" \o Str(row[1]) \o "id_/" \o Str(row[2])

\* the answer of a page fetch holds a mailto reference to Email
HoldsMatch(outcome) == outcome.ok /\ outcome.text \in {PlainBody, AnchorBody}

\* the URLs a call fetched whose page held a match
MatchedBy(call) ==
    {call.fetched[k] : k \in {j \in 1..Len(call.fetched) : HoldsMatch(call.fetches[j])}}

IsPattern(url) == Contains("*", url)

IsArchiveUrl(url) == Contains("web.archive.org", url)

IsStructured(result) == StartsWith(Lower(result[2]), "href")

\* the plain match p lies within the structured match h
Within(p, h) == h.start <= p.start /\ p.end <= h.end

\* C2: find_mailto_occurrences returns one structured result per occurrence
\* of the href attribute, and one plain result per plain occurrence that is
\* not part of a structured match: no more, no fewer.
C2_OneResultPerOccurrence ==
    mPc = "done" =>
        LET low == Lower(mBody)
            hs == FindIter(HrefPattern(mEmail), low, 0)
            ps == FindIter(PlainPattern(mEmail), low, 0)
            alone == {k \in 1..Len(ps) : \A j \in 1..Len(hs) : ~Within(ps[k], hs[j])}
        IN  /\ Cardinality({k \in 1..Len(mResults) : IsStructured(mResults[k])}) = Len(hs)
            /\ Cardinality({k \in 1..Len(mResults) : ~IsStructured(mResults[k])})
                   = Cardinality(alone)

\* C3: for an ordinary original URL, a call that returns has added to the
\* found-set exactly the snapshot URLs of the resolver rows whose page holds
\* a match; a failed fetch or a page without a match adds nothing, and the
\* candidate itself is never added.
C3_OrdinaryUrlAddsMatchingSnapshots ==
    (dPc = "done" /\ ~IsPattern(dUrl) /\ ~IsArchiveUrl(dUrl) /\ ~dOut.raised) =>
        /\ dOut.found = dFound0 \cup
               {ExpectedSnap(dOut.rows[k]) :
                    k \in {j \in 1..Len(dOut.rows) : HoldsMatch(dFetch[j])}}
        /\ dUrl \notin dOut.found

\* scenario B: two rows, the page of one of them holds the plain reference
C3_Witness ==
    /\ dPc = "done"
    /\ dUrl = "http://a.example/"
    /\ ~dOut.raised
    /\ dFound0 = {}
    /\ Len(dOut.rows) = 2
    /\ dFetch[1] = FetchOk(OtherBody)
    /\ dFetch[2] = FetchOk(PlainBody)
    /\ dOut.found = {ExpectedSnap(dOut.rows[2])}

\* a row of the index that query_cdx keeps
IsPairRow(item) == item.t = "list" /\ Len(item.v) >= 2

\* C4: query_cdx never raises; it returns the empty list when the request,
\* the status check or the JSON parsing failed, when the JSON value is not a
\* list or has fewer than 2 rows, and otherwise the pairs (row[0], row[1])
\* of the rows after the header that are lists of length >= 2, in order.
C4_QueryCdxTotal ==
    cPc = "done" =>
        /\ ~cOut.raised
        /\ IF cResp.raises # "none" \/ cResp.data.t # "list"
           THEN cOut.rows = <<>>
           ELSE IF Len(cResp.data.v) < 2
           THEN cOut.rows = <<>>
           ELSE LET kept == SelectSeq(Tail(cResp.data.v), IsPairRow)
                IN  cOut.rows = [k \in 1..Len(kept) |-> <<kept[k].v[1], kept[k].v[2]>>]

\* a header, a row too short to keep, and a row that is kept
C4_Witness ==
    /\ cPc = "done"
    /\ cResp.raises = "none"
    /\ cResp.data.t = "list"
    /\ Len(cResp.data.v) = 3
    /\ cResp.data.v[1] = HeaderRow
    /\ ~IsPairRow(cResp.data.v[2])
    /\ cResp.data.v[3] = RowB
    /\ Len(cOut.rows) = 1

\* the URLs dispatched in a pass, in order
UrlsOf(pass) ==
    LET es == SelectSeq(dispatched, LAMBDA e : e[1] = pass)
    IN  [k \in 1..Len(es) |-> es[k][2]]

\* C5: with the candidates file missing, the scanner does not stop with an
\* error: the fallback patterns are its candidates, each of them is
\* dispatched, and the run goes on to the writing step and ends with 0.
\* (Violated: the notice of line 173 can end the run with a traceback.)
C5_MissingFileFallsBack ==
    candFile.kind = "missing" =>
        /\ pc # "crashed"
        /\ pc # "read" => candidates = FallbackPatterns
        /\ pc \in {"write", "done"} => UrlsOf("main") = FallbackPatterns
        /\ pc # "done" => ENABLED Next
        /\ pc = "done" => exitCode = 0

C7_FallbackPass ==
    LET mn == UrlsOf("main")
        fb == UrlsOf("fallback")
    IN  /\ dispatched = [k \in 1..Len(mn) |-> <<"main", mn[k]>>]
                        \o [k \in 1..Len(fb) |-> <<"fallback", fb[k]>>]
        /\ Len(fb) <= Len(FallbackPatterns)
        /\ fb = SubSeq(FallbackPatterns, 1, Len(fb))
        /\ fb # <<>> => afterMain.done /\ afterMain.found = {} /\ mn = candidates
        /\ afterMain.done => mn = candidates
        /\ (afterMain.done /\ afterMain.found = {}) => pc \in {"fallback", "write", "done"}
        /\ pc \in {"write", "done"} =>
              fb = IF afterMain.found = {} THEN FallbackPatterns ELSE <<>>

\* the text, read back, is the elements of S, one per line, each once, in
\* ascending order
ReadsBackAs(text, S) ==
    \E lines \in {ReadLines(text)} :
        /\ Len(lines) = Cardinality(S)
        /\ {lines[k] : k \in 1..Len(lines)} = S
        /\ \A k \in 1..Len(lines) - 1 : StrLess(lines[k], lines[k + 1])

\* C8, as stated: after a run, the --out file read back gives the elements
\* of the found-set, one per line, each once, in ascending order.
C8_RoundTrip ==
    pc = "done" => outFile # NoFile /\ ReadsBackAs(outFile, found)

\* C8, amended: after a run that found something, the --out file read back
\* gives the elements of the found-set, one per line, each once, in ascending
\* order; a run that found nothing leaves the --out file as it was (absent,
\* or with what an earlier run wrote).
C8_RoundTripWhenFound ==
    pc = "done" =>
        IF found # {}
        THEN outFile # NoFile /\ ReadsBackAs(outFile, found)
        ELSE outFile = oldOut

\* a run that found two snapshots, over the file of an earlier run
C8_Witness ==
    /\ pc = "done"
    /\ Cardinality(found) = 2
    /\ oldOut = StaleOut
    /\ outFile # oldOut

Count(s) == Cardinality({k \in 1..Len(dispatched) : dispatched[k][2] = s})

\* the number of candidate lines that are the string s
Lines(s) == Cardinality({k \in 1..Len(candidates) : candidates[k] = s})

\* the candidates file is missing or has no non-blank line
Substituted ==
    \/ candFile.kind = "missing"
    \/ candFile.kind = "ok" /\ \A k \in 1..Len(candFile.lines) : Strip(candFile.lines[k]) = ""

Dispatchable == SeqToSet(candidates) \cup SeqToSet(FallbackPatterns)

MostDispatches(s) ==
    Lines(s) + (IF afterMain.done /\ afterMain.found = {} /\ s \in SeqToSet(FallbackPatterns)
                THEN 1 ELSE 0)

====
